---------------------------- MODULE Spec2Model ----------------------------
(***************************************************************************)
(* Wake-word pipeline of eva-desktop (src-tauri/src/porcupine_service.rs). *)
(*                                                                         *)
(* The model has three kinds of processes:                                 *)
(*   - the Lifecycle Controller (PorcupineService), whose public methods   *)
(*     run one at a time behind the tokio Mutex of lib.rs;                 *)
(*   - one detection worker per successful start                           *)
(*     (run_audio_processing_blocking, spawned with spawn_blocking);       *)
(*   - the audio data callback of each worker's cpal stream                *)
(*     (the closure built in create_audio_stream).                         *)
(* They share the AtomicBool is_listening, the oneshot stop channel and    *)
(* the mpsc frame channel.                                                 *)
(*                                                                         *)
(* Time is counted in ticks; there are TicksPerSec ticks in a second.      *)
(***************************************************************************)
EXTENDS Integers, Sequences, FiniteSets, TLC

VARIABLES
    is_listening,   \* PorcupineService.is_listening (Arc<AtomicBool>, shared by all sessions)
    access_key,     \* PorcupineService.access_key : Option<String>, <<>> is None
    stop_sender,    \* PorcupineService.stop_sender : 0 is None, s is the Sender of session s
    dropped,        \* the PorcupineService value has been dropped
    keychain,       \* the password stored in the system keychain, <<>> when there is none
    env,            \* process environment and default input device (fixed for a run)
    nsessions,      \* number of workers spawned so far
    sess,           \* per session: the locals of its worker and of its data callback
    now,            \* the clock, in ticks
    nframes,        \* frames completed by all Framers so far
    matches,        \* history: <<session, time>> of every non-negative engine result
                    \* (kept, like engine_result, only when limit.trace_matches)
    events,         \* history: every call of app_handle.emit, with its session, its
                    \* time, whether it returned Ok and whether stop_listening had
                    \* already returned Ok for the session
    stopped,        \* history: sessions for which stop_listening returned Ok
    ret,            \* the value returned by the last controller call
    limit,          \* bounds of the run
    capture         \* AudioCaptureService: its fields and the tasks it has spawned

vars == <<is_listening, access_key, stop_sender, dropped, keychain, env,
          nsessions, sess, now, nframes, matches, events, stopped, ret, limit, capture>>

-----------------------------------------------------------------------------
(* Program constants *)

PORCUPINE_SAMPLE_RATE == 16000
PORCUPINE_FRAME_LENGTH == 512
CooldownSecs == 2
InitialBackdateSecs == 10

(* Bounds of the model *)

\* resolution of the clock
TicksPerSec == 2

MaxSessions == 2
MaxLive == 2
MaxFrames == 1
MaxTime == 1
DebugFrames == 3
DebugTime == 1
OneSessions == 1
OneLive == 1
OneFrames == 1
OneTime == 1
CooldownFrames == 4
CooldownTime == 5
DropSessions == 3
DropLive == 2
DropFrames == 1
DropTime == 1
RestartSessions == 2
RestartLive == 1
RestartFrames == 2
RestartTime == 4
BridgeFrames == 3
BridgeTime == 1
StopSessions == 2
StopLive == 2
StopFrames == 1
StopTime == 1
MaxSampleFrames == 2
MaxBuffer == 3
MaxCaptures == 3
MaxChunks == 1

Sessions == 1 .. 4

\* Duration::from_secs(2)
cooldown_duration == CooldownSecs * TicksPerSec

None == <<>>
Some(x) == <<x>>

-----------------------------------------------------------------------------
(* Session locals *)

\* no frame; a frame is the number of its completion, the position of its first
\* sample in the resampled mono stream of its session, and its length
NoFrame == [id |-> 0, first |-> 0, len |-> 0]

\* the data callback seen sample by sample (followed only by
\* audio_callback_samples): the samples of its last run and its buffer
NoPcm == [data |-> <<>>, mono_samples |-> <<>>, resampled_samples |-> <<>>,
          audio_buffer |-> <<>>]

\* no engine; a Porcupine instance is the access key and the keyword it was built with
NoPorcupine == [access_key |-> "none", keyword |-> "none"]

NoSession ==
    [ pc                  |-> "none",
      stop_rx             |-> "empty",
      stream              |-> FALSE,
      tx                  |-> FALSE,
      rx                  |-> <<>>,
      audio_buffer        |-> 0,
      frames_completed    |-> 0,
      resampled_total     |-> 0,
      resampler           |-> FALSE,
      pcm                 |-> NoPcm,
      porcupine           |-> NoPorcupine,
      audio_frame         |-> NoFrame,
      frame_count         |-> 0,
      engine_result       |-> "none",
      debug_write_failed  |-> FALSE,
      debug_recording     |-> <<>>,
      last_detection_time |-> 0,
      debug_wav_writer    |-> "None",
      result              |-> "running" ]

Spawned == 1 .. nsessions

Returned(s) == sess[s].pc \in {"failed", "returned"}

LiveWorkers == {s \in Spawned : ~Returned(s)}

OpenStreams == {s \in Spawned : sess[s].stream}


-----------------------------------------------------------------------------
(* Lifecycle Controller *)

Result(op, val) == [op |-> op, val |-> val]

\* get_key_from_keychain: Ok(password) when the keychain entry holds one
get_key_from_keychain == keychain

\* store_key_in_keychain: set_password may fail; the caller only logs a failure
store_key_in_keychain(key, store_ok) == IF store_ok THEN Some(key) ELSE keychain

\* a resolution that asks the environment before the keychain
get_access_key_EnvFirst(store_ok) ==
    IF access_key # None
    THEN [res |-> "Ok", access_key |-> access_key, keychain |-> keychain]
    ELSE IF env.pv_access_key # None
    THEN [res |-> "Ok", access_key |-> env.pv_access_key,
          keychain |-> store_key_in_keychain(env.pv_access_key[1], store_ok)]
    ELSE IF get_key_from_keychain # None
    THEN [res |-> "Ok", access_key |-> get_key_from_keychain, keychain |-> keychain]
    ELSE [res |-> "AccessKey", access_key |-> access_key, keychain |-> keychain]

\* get_access_key: the cached key, else the keychain, else PV_ACCESS_KEY
\* (written back to the keychain), else Err(AccessKey)
get_access_key(store_ok) ==
    IF access_key # None
    THEN [res |-> "Ok", access_key |-> access_key, keychain |-> keychain]
    ELSE IF get_key_from_keychain # None
    THEN [res |-> "Ok", access_key |-> get_key_from_keychain, keychain |-> keychain]
    ELSE IF env.pv_access_key # None
    THEN [res |-> "Ok", access_key |-> env.pv_access_key,
          keychain |-> store_key_in_keychain(env.pv_access_key[1], store_ok)]
    ELSE [res |-> "AccessKey", access_key |-> access_key, keychain |-> keychain]

\* "models/Hi-Eva.ppn", the keyword of new_with_keyword_paths
custom_model_path == "models/Hi-Eva.ppn"

\* the match on WAKE_WORD_KEYWORD in create_porcupine
keyword_from_env(value) ==
    CASE value = "alexa"      -> "Alexa"
      [] value = "computer"   -> "Computer"
      [] value = "jarvis"     -> "Jarvis"
      [] value = "hey-google" -> "HeyGoogle"
      [] value = "ok-google"  -> "OkGoogle"
      [] value = "picovoice"  -> "Picovoice"
      [] OTHER                -> "Porcupine"

\* keyword_name: the name create_porcupine logs for a built-in keyword
keyword_name(k) ==
    CASE k = "Alexa"     -> "Alexa"
      [] k = "Computer"  -> "Computer"
      [] k = "Jarvis"    -> "Jarvis"
      [] k = "HeyGoogle" -> "Hey Google"
      [] k = "OkGoogle"  -> "Ok Google"
      [] k = "Picovoice" -> "Picovoice"
      [] OTHER           -> "Porcupine"

\* a resolver that lets the environment override the custom model
PreferCustomModel_EnvFirst == env.wake_word_keyword = None /\ env.custom_model_exists

\* Path::new(custom_model_path).exists() is looked at first
PreferCustomModel == env.custom_model_exists

\* the keyword create_porcupine builds the engine with: the custom model when its
\* file exists, else the built-in keyword WAKE_WORD_KEYWORD selects, else Computer
keyword ==
    IF PreferCustomModel THEN custom_model_path
    ELSE IF env.wake_word_keyword # None THEN keyword_from_env(env.wake_word_keyword[1])
    ELSE "Computer"

\* WakeWordKeyword::from_env (audio/config.rs), which no code calls
from_env ==
    IF env.custom_model_exists THEN "HiEva"
    ELSE CASE env.wake_word_keyword = Some("alexa")      -> "Alexa"
           [] env.wake_word_keyword = Some("computer")   -> "Computer"
           [] env.wake_word_keyword = Some("jarvis")     -> "Jarvis"
           [] env.wake_word_keyword = Some("hey-google") -> "HeyGoogle"
           [] env.wake_word_keyword = Some("ok-google")  -> "OkGoogle"
           [] env.wake_word_keyword = Some("picovoice")  -> "Picovoice"
           [] env.wake_word_keyword = Some("porcupine")  -> "Porcupine"
           [] OTHER                                      -> "Computer"

\* WakeWordKeyword::as_str
as_str(k) ==
    CASE k = "HiEva"     -> "Hi Eva"
      [] k = "Alexa"     -> "Alexa"
      [] k = "Computer"  -> "Computer"
      [] k = "Jarvis"    -> "Jarvis"
      [] k = "HeyGoogle" -> "Hey Google"
      [] k = "OkGoogle"  -> "Ok Google"
      [] k = "Picovoice" -> "Picovoice"
      [] k = "Porcupine" -> "Porcupine"

\* the label the command get_current_wake_word (lib.rs) computes
current_wake_word ==
    IF env.custom_model_exists THEN "Hi Eva"
    ELSE IF env.wake_word_keyword # None
    THEN CASE env.wake_word_keyword[1] = "alexa"      -> "Alexa"
           [] env.wake_word_keyword[1] = "computer"   -> "Computer"
           [] env.wake_word_keyword[1] = "jarvis"     -> "Jarvis"
           [] env.wake_word_keyword[1] = "hey-google" -> "Hey Google"
           [] env.wake_word_keyword[1] = "ok-google"  -> "Ok Google"
           [] env.wake_word_keyword[1] = "picovoice"  -> "Picovoice"
           [] env.wake_word_keyword[1] = "porcupine"  -> "Porcupine"
           [] OTHER                                   -> "Computer"
    ELSE "Computer"

\* a create_porcupine that keeps the resolved key only when the engine was built
create_porcupine_CacheOnSuccess(store_ok, init_ok) ==
    LET k == get_access_key(store_ok)
        res == IF k.res # "Ok" THEN k.res
               ELSE IF ~init_ok THEN "PorcupineInit" ELSE "Ok"
    IN  [res |-> res,
         access_key |-> IF res = "Ok" THEN k.access_key ELSE access_key,
         keychain |-> k.keychain,
         porcupine |-> IF res = "Ok"
                       THEN [access_key |-> k.access_key[1], keyword |-> keyword]
                       ELSE NoPorcupine]

\* create_porcupine: resolve the key, then build the engine (init may fail)
create_porcupine(store_ok, init_ok) ==
    LET k == get_access_key(store_ok)
        res == IF k.res # "Ok" THEN k.res
               ELSE IF ~init_ok THEN "PorcupineInit" ELSE "Ok"
    IN  [res |-> res, access_key |-> k.access_key, keychain |-> k.keychain,
         porcupine |-> IF res = "Ok"
                       THEN [access_key |-> k.access_key[1], keyword |-> keyword]
                       ELSE NoPorcupine]

\* dropping a oneshot Sender without sending closes the channel
DropSender(ss, s) ==
    IF s # 0 /\ ss[s].stop_rx = "empty" THEN [ss EXCEPT ![s].stop_rx = "closed"] ELSE ss

\* oneshot Sender::send: delivered unless the Receiver is gone
SendStop(ss, s) ==
    IF s # 0 /\ ss[s].stop_rx = "empty" /\ ~Returned(s)
    THEN [ss EXCEPT ![s].stop_rx = "sent"] ELSE ss

\* a start that does not look at the flag
AlreadyListening_Never == FALSE

\* the guard of start_listening
AlreadyListening == is_listening

start_listening ==
    /\ ~dropped
    /\ \E store_ok \in BOOLEAN, init_ok \in BOOLEAN :
         LET p == create_porcupine(store_ok, init_ok)
             s == nsessions + 1
         IN
         IF AlreadyListening
         THEN /\ ret' = Result("start", "AlreadyListening")
              /\ UNCHANGED <<is_listening, access_key, stop_sender, keychain,
                             nsessions, sess>>
         ELSE IF p.res # "Ok"
         THEN /\ ret' = Result("start", p.res)
              /\ access_key' = p.access_key
              /\ keychain' = p.keychain
              /\ UNCHANGED <<is_listening, stop_sender, nsessions, sess>>
         ELSE /\ nsessions < limit.sessions
              /\ Cardinality(LiveWorkers) < limit.live
              /\ access_key' = p.access_key
              /\ keychain' = p.keychain
              /\ stop_sender' = s
              /\ is_listening' = TRUE
              /\ nsessions' = s
              /\ sess' = [DropSender(sess, stop_sender) EXCEPT
                            ![s] = [NoSession EXCEPT !.pc = "starting",
                                                     !.porcupine = p.porcupine]]
              /\ ret' = Result("start", "Ok")
    /\ UNCHANGED <<dropped, env, now, nframes, matches, events, stopped, limit, capture>>

\* a stop_listening that does not look at the flag
NotListening_NoGuard == FALSE

\* the guard of stop_listening
NotListening == ~is_listening

stop_listening ==
    /\ ~dropped
    /\ IF NotListening
       THEN /\ ret' = Result("stop", "NotListening")
            /\ UNCHANGED <<is_listening, stop_sender, sess, stopped>>
       ELSE /\ is_listening' = FALSE
            /\ sess' = SendStop(sess, stop_sender)
            /\ stop_sender' = 0
            /\ stopped' = stopped \cup (IF stop_sender = 0 THEN {} ELSE {stop_sender})
            /\ ret' = Result("stop", "Ok")
    /\ UNCHANGED <<access_key, dropped, keychain, env, nsessions, now, nframes,
                   matches, events, limit, capture>>

\* a status that reads the flag with swap(false)
status_Swap ==
    /\ ~dropped
    /\ ret' = Result("status", IF is_listening THEN "Listening" ELSE "NotListening")
    /\ is_listening' = FALSE
    /\ UNCHANGED <<access_key, stop_sender, dropped, keychain, env,
                   nsessions, sess, now, nframes, matches, events, stopped, limit, capture>>

\* PorcupineService::is_listening (wake_word_status)
status ==
    /\ ~dropped
    /\ ret' = Result("status", IF is_listening THEN "Listening" ELSE "NotListening")
    /\ UNCHANGED <<is_listening, access_key, stop_sender, dropped, keychain, env,
                   nsessions, sess, now, nframes, matches, events, stopped, limit, capture>>

\* impl Drop for PorcupineService
drop ==
    /\ ~dropped
    /\ dropped' = TRUE
    /\ is_listening' = FALSE
    /\ sess' = SendStop(sess, stop_sender)
    /\ stop_sender' = 0
    /\ ret' = Result("drop", "Ok")
    /\ UNCHANGED <<access_key, keychain, env, nsessions, now, nframes, matches,
                   events, stopped, limit, capture>>

-----------------------------------------------------------------------------
(* Detection worker: run_audio_processing_blocking *)

StartupOutcomes ==
    {"Ok", "NoInputDevice", "DeviceName", "InputConfig", "Resampler", "DebugDir",
     "DebugWav", "UnsupportedFormat", "BuildStream", "PlayStream"}

\* the WakeWordError each failed startup step returns with `?`
StartupError(outcome) ==
    CASE outcome = "Resampler" -> "Resampling(Failed to create resampler)"
      [] outcome = "DebugDir"  -> "AudioDevice(Failed to create debug directory)"
      [] outcome = "DebugWav"  -> "AudioDevice(Failed to create WAV writer)"
      [] OTHER                 -> "AudioDevice"

\* what a failed startup leaves behind: the function returns Err, its locals are
\* dropped, and is_listening is not written
startup_failed(s, outcome) ==
    /\ sess' = [sess EXCEPT ![s] = [NoSession EXCEPT !.pc = "failed",
                                                     !.result = StartupError(outcome)]]
    /\ UNCHANGED is_listening

\* device lookup, resampler, frame channel, debug file, stream build and play
worker_startup(s) ==
    /\ sess[s].pc = "starting"
    /\ \E outcome \in StartupOutcomes :
         /\ outcome = "Resampler" => env.input_sample_rate # PORCUPINE_SAMPLE_RATE
         /\ outcome \in {"DebugDir", "DebugWav"} => env.debug_audio
         /\ IF outcome = "Ok"
            THEN /\ sess' = [sess EXCEPT ![s] =
                       [@ EXCEPT !.pc = "try_recv",
                                 !.stream = TRUE,
                                 !.tx = TRUE,
                                 !.resampler = (env.input_sample_rate # PORCUPINE_SAMPLE_RATE),
                                 !.debug_wav_writer = IF env.debug_audio THEN "open" ELSE "None",
                                 !.last_detection_time = now - InitialBackdateSecs * TicksPerSec]]
                 /\ UNCHANGED is_listening
            ELSE startup_failed(s, outcome)
    /\ UNCHANGED <<access_key, stop_sender, dropped, keychain, env, nsessions, now,
                   nframes, matches, events, stopped, ret, limit, capture>>

\* a loop that never looks at the stop channel
StopObserved_Never(s) == FALSE

\* stop_rx.try_recv() at the top of the loop: only Ok(()) breaks
StopObserved(s) == sess[s].stop_rx = "sent"

worker_try_recv(s) ==
    /\ sess[s].pc = "try_recv"
    /\ sess' = [sess EXCEPT ![s].pc = IF StopObserved(s) THEN "finalize" ELSE "recv_timeout",
                            ![s].engine_result = "none"]
    /\ UNCHANGED <<is_listening, access_key, stop_sender, dropped, keychain, env,
                   nsessions, now, nframes, matches, events, stopped, ret, limit, capture>>

\* rx.recv_timeout(100 ms): a frame, Timeout, or Disconnected
worker_recv_timeout(s) ==
    /\ sess[s].pc = "recv_timeout"
    /\ sess' = [sess EXCEPT ![s] =
           IF sess[s].rx # <<>>
           THEN [@ EXCEPT !.pc = "process",
                          !.audio_frame = Head(sess[s].rx),
                          !.frame_count = @ + 1,
                          !.rx = Tail(sess[s].rx)]
           ELSE IF sess[s].tx
           THEN [@ EXCEPT !.pc = "try_recv"]
           ELSE [@ EXCEPT !.pc = "finalize"]]
    /\ UNCHANGED <<is_listening, access_key, stop_sender, dropped, keychain, env,
                   nsessions, now, nframes, matches, events, stopped, ret, limit, capture>>

\* a cooldown that also suppresses the match arriving exactly at its end
InCooldown_Inclusive(s) == now - sess[s].last_detection_time <= cooldown_duration

\* a loop without the cooldown check
InCooldown_Never(s) == FALSE

\* time_since_last_detection < cooldown_duration
InCooldown(s) == now - sess[s].last_detection_time < cooldown_duration

\* a loop that gives up on the first engine error
AfterEngineError_Fatal == "finalize"

\* Err(e) of porcupine.process is logged and the loop goes on
AfterEngineError == "try_recv"

\* a loop that gives up when the event cannot be emitted
AfterEmitError_Fatal == "finalize"

\* Err(e) of app_handle.emit is logged and the loop goes on
AfterEmitError == "try_recv"

\* Err(e) of writer.write_sample ends the writing of this frame only
AfterWriteError(writer) == writer

\* a loop that writes the frame after the detection, where the cooldown's
\* `continue` skips the write
WritesFrame_AfterDetection(engine_result) == engine_result # "Suppressed"

\* the debug write comes before porcupine.process: it does not depend on its result
WritesFrame(engine_result) == TRUE

\* a loop that takes the timestamp back when the emit fails
DetectionTime_RolledBack(s, emit_ok) ==
    IF emit_ok THEN now ELSE sess[s].last_detection_time

\* last_detection_time = now, before the event is built and emitted
DetectionTime(s, emit_ok) == now

\* the label put in the event: resolved again when the event is built
wake_word ==
    IF env.custom_model_exists THEN "Hi Eva"
    ELSE IF env.wake_word_keyword # None
    THEN CASE env.wake_word_keyword[1] = "alexa"      -> "Alexa"
           [] env.wake_word_keyword[1] = "computer"   -> "Computer"
           [] env.wake_word_keyword[1] = "jarvis"     -> "Jarvis"
           [] env.wake_word_keyword[1] = "hey-google" -> "Hey Google"
           [] env.wake_word_keyword[1] = "ok-google"  -> "Ok Google"
           [] env.wake_word_keyword[1] = "picovoice"  -> "Picovoice"
           [] OTHER                                   -> "Porcupine"
    ELSE "Computer"

\* one received frame: debug write, porcupine.process, cooldown, emit
worker_process(s) ==
    /\ sess[s].pc = "process"
    /\ \E keyword_index \in {-2, -1, 0}, emit_ok \in BOOLEAN, write_ok \in BOOLEAN :
         \* -2 stands for Err(e) of porcupine.process
         LET writing == sess[s].debug_wav_writer = "open"
             seen(r) == IF limit.trace_matches THEN r ELSE "none"
             written(r) == [sess[s] EXCEPT
                            !.audio_frame = NoFrame,
                            !.debug_write_failed = @ \/ (writing /\ ~write_ok),
                            !.debug_recording =
                                IF writing /\ write_ok /\ WritesFrame(r)
                                THEN Append(@, sess[s].audio_frame.id) ELSE @,
                            !.debug_wav_writer =
                                IF writing /\ ~write_ok THEN AfterWriteError(@) ELSE @]
         IN
         /\ ~writing => write_ok
         /\ IF keyword_index = -2
            THEN /\ sess' = [sess EXCEPT ![s] =
                        [written("Err") EXCEPT !.pc = AfterEngineError,
                                        !.engine_result = seen("Err")]]
                 /\ UNCHANGED <<matches, events>>
            ELSE IF keyword_index < 0
            THEN /\ sess' = [sess EXCEPT ![s] =
                        [written("NoMatch") EXCEPT !.pc = "try_recv",
                                        !.engine_result = seen("NoMatch")]]
                 /\ UNCHANGED <<matches, events>>
            ELSE /\ matches' = IF limit.trace_matches THEN Append(matches, <<s, now>>)
                               ELSE matches
                 /\ IF InCooldown(s)
                    THEN /\ sess' = [sess EXCEPT ![s] =
                                [written("Suppressed") EXCEPT
                                    !.pc = "try_recv",
                                    !.engine_result = seen("Suppressed")]]
                         /\ UNCHANGED events
                    ELSE /\ sess' = [sess EXCEPT ![s] =
                                [written("Emitted") EXCEPT
                                    !.pc = IF emit_ok THEN "try_recv" ELSE AfterEmitError,
                                    !.engine_result =
                                        seen(IF emit_ok THEN "Emitted" ELSE "EmitErr"),
                                    !.last_detection_time = DetectionTime(s, emit_ok)]]
                         /\ events' = Append(events, [session |-> s, timestamp |-> now,
                                                      delivered |-> emit_ok,
                                                      after_stop |-> s \in stopped,
                                                      wake_word |-> wake_word,
                                                      keyword |-> sess[s].porcupine.keyword])
    /\ UNCHANGED <<is_listening, access_key, stop_sender, dropped, keychain, env,
                   nsessions, now, nframes, stopped, ret, limit, capture>>

\* after the loop: finalize the debug recording
worker_finalize(s) ==
    /\ sess[s].pc = "finalize"
    /\ sess' = [sess EXCEPT ![s].pc = "drop_stream",
                            ![s].debug_wav_writer =
                                IF @ = "open" THEN "finalized" ELSE @]
    /\ UNCHANGED <<is_listening, access_key, stop_sender, dropped, keychain, env,
                   nsessions, now, nframes, matches, events, stopped, ret, limit, capture>>

\* a teardown without the explicit drop: the stream lives until the function returns
worker_drop_stream_AtReturn(s) ==
    /\ sess[s].pc = "drop_stream"
    /\ sess' = [sess EXCEPT ![s].pc = "store_false"]
    /\ UNCHANGED <<is_listening, access_key, stop_sender, dropped, keychain, env,
                   nsessions, now, nframes, matches, events, stopped, ret, limit, capture>>

\* drop(stream): the stream and its data callback (and the callback's tx) are gone
worker_drop_stream(s) ==
    /\ sess[s].pc = "drop_stream"
    /\ sess' = [sess EXCEPT ![s].pc = "store_false",
                            ![s].stream = FALSE,
                            ![s].tx = FALSE,
                            ![s].audio_buffer = 0,
                            ![s].frames_completed = 0,
                            ![s].resampled_total = 0,
                            ![s].pcm = NoPcm]
    /\ UNCHANGED <<is_listening, access_key, stop_sender, dropped, keychain, env,
                   nsessions, now, nframes, matches, events, stopped, ret, limit, capture>>

\* is_listening.store(false) and return Ok(())
worker_store_false(s) ==
    /\ sess[s].pc = "store_false"
    /\ is_listening' = FALSE
    /\ sess' = [sess EXCEPT ![s] = [NoSession EXCEPT !.pc = "returned", !.result = "Ok"]]
    /\ UNCHANGED <<access_key, stop_sender, dropped, keychain, env, nsessions, now,
                   nframes, matches, events, stopped, ret, limit, capture>>

worker(s) ==
    \/ worker_startup(s)
    \/ worker_try_recv(s)
    \/ worker_recv_timeout(s)
    \/ worker_process(s)
    \/ worker_finalize(s)
    \/ worker_drop_stream(s)
    \/ worker_store_false(s)

-----------------------------------------------------------------------------
(* Capture Bridge: the data callback built by create_audio_stream *)

\* data.len() of one callback: the device's buffer, interleaved
DataLens == {env.buffer_frames * env.channels}

\* mono conversion: chunks(2) keeps one sample per chunk, only for two channels
MonoLen(n, channels) == IF channels = 2 THEN (n + 1) \div 2 ELSE n

\* length of the resampler's output for n input samples
ResampledLen(n) == (n * PORCUPINE_SAMPLE_RATE) \div env.input_sample_rate

\* the frames completed when the buffer holds n samples: the while loop drains
\* PORCUPINE_FRAME_LENGTH samples from the front of the buffer for each
CompletedFrames(s, n) ==
    [i \in 1 .. (n \div PORCUPINE_FRAME_LENGTH) |->
        [id    |-> sess[s].frames_completed + i,
         first |-> (sess[s].resampled_total - sess[s].audio_buffer)
                      + (i - 1) * PORCUPINE_FRAME_LENGTH,
         len   |-> PORCUPINE_FRAME_LENGTH]]

\* a Framer that empties its buffer after yielding frames
Remainder_Cleared(n) == 0

\* what remains in the buffer after the while loop
Remainder(n) == n % PORCUPINE_FRAME_LENGTH

\* a rendezvous channel of capacity one, whose send waits for the loop
ChannelHasRoom_Bounded(q, k) == Len(q) + k <= 1

\* std::sync::mpsc::channel() is unbounded: send never waits for the receiver
ChannelHasRoom(q, k) == TRUE

\* a channel that hands over the newest frame first
ChannelSend_Front(q, frames) == frames \o q

\* tx.send(frame) for each completed frame: std::sync::mpsc is FIFO
ChannelSend(q, frames) == q \o frames

\* a callback that does not look at the flag
CallbackRuns_Always == TRUE

\* the load of is_listening at the top of the callback
CallbackRuns == is_listening

audio_callback(s) ==
    /\ sess[s].stream /\ sess[s].tx
    /\ \E n \in DataLens, rs_ok \in BOOLEAN :
         IF ~CallbackRuns \/ (sess[s].resampler /\ ~rs_ok)
         THEN UNCHANGED <<sess, nframes>>
         ELSE LET mono == MonoLen(n, env.channels)
                  out == IF sess[s].resampler THEN ResampledLen(mono) ELSE mono
                  buf == sess[s].audio_buffer + out
                  frames == CompletedFrames(s, buf)
              IN  /\ nframes + Len(frames) <= limit.frames
                  /\ ChannelHasRoom(sess[s].rx, Len(frames))
                  /\ nframes' = nframes + Len(frames)
                  /\ sess' = [sess EXCEPT
                        ![s].audio_buffer = Remainder(buf),
                        ![s].frames_completed = @ + Len(frames),
                        ![s].resampled_total = @ + out,
                        ![s].rx = IF Returned(s) THEN @ ELSE ChannelSend(@, frames)]
    /\ UNCHANGED <<is_listening, access_key, stop_sender, dropped, keychain, env,
                   nsessions, now, matches, events, stopped, ret, limit, capture>>

\* the levels a sample takes in the sample-by-sample view
SampleValues == {-1, 1}

\* the samples of one callback: whole interleaved frames of env.channels samples
SampleData ==
    UNION {[1 .. (k * env.channels) -> SampleValues] : k \in 1 .. MaxSampleFrames}

\* mono conversion: for two channels chunks(2) keeps the first sample of each
\* chunk; for any other channel count the samples are taken as they are
mono_samples(samples, channels) ==
    IF channels = 2
    THEN [i \in 1 .. ((Len(samples) + 1) \div 2) |-> samples[2 * i - 1]]
    ELSE samples

\* a bridge that runs every callback through a resampler
resampled_samples_Always(mono, resampler, output) == output

\* resampling: the resampler's output when there is one, else the mono samples
resampled_samples(mono, resampler, output) ==
    IF resampler THEN output ELSE mono

\* the data callback, sample by sample: flag check, mono conversion, resampling,
\* audio_buffer.extend, and the frame loop
audio_callback_samples(s) ==
    /\ sess[s].stream /\ sess[s].tx
    /\ \E data \in SampleData, rs_ok \in BOOLEAN :
         IF ~CallbackRuns \/ (sess[s].resampler /\ ~rs_ok)
         THEN UNCHANGED <<sess, nframes>>
         ELSE LET mono == mono_samples(data, env.channels) IN
              \E output \in [1 .. ResampledLen(Len(mono)) -> SampleValues] :
              LET resampled == resampled_samples(mono, sess[s].resampler, output)
                  buffer == sess[s].pcm.audio_buffer \o resampled
                  frames == CompletedFrames(s, Len(buffer))
                  rest == SubSeq(buffer, Len(frames) * PORCUPINE_FRAME_LENGTH + 1,
                                 Len(buffer))
              IN  /\ Len(buffer) <= MaxBuffer
                  /\ nframes + Len(frames) <= limit.frames
                  /\ nframes' = nframes + Len(frames)
                  /\ sess' = [sess EXCEPT
                        ![s].audio_buffer = Len(rest),
                        ![s].frames_completed = @ + Len(frames),
                        ![s].resampled_total = @ + Len(resampled),
                        ![s].pcm = [data |-> data, mono_samples |-> mono,
                                    resampled_samples |-> resampled,
                                    audio_buffer |-> rest],
                        ![s].rx = IF Returned(s) THEN @ ELSE ChannelSend(@, frames)]
    /\ UNCHANGED <<is_listening, access_key, stop_sender, dropped, keychain, env,
                   nsessions, now, matches, events, stopped, ret, limit, capture>>

\* the audio backend ends the capture on its own and releases the data callback,
\* which drops the callback's tx while the worker still holds the stream handle
capture_bridge_terminated(s) ==
    /\ sess[s].stream /\ sess[s].tx
    /\ sess' = [sess EXCEPT ![s].tx = FALSE, ![s].audio_buffer = 0,
                            ![s].frames_completed = 0, ![s].resampled_total = 0,
                            ![s].pcm = NoPcm]
    /\ UNCHANGED <<is_listening, access_key, stop_sender, dropped, keychain, env,
                   nsessions, now, nframes, matches, events, stopped, ret, limit, capture>>

\* somebody installs or removes the custom model file models/Hi-Eva.ppn
model_file_changes ==
    /\ env' = [env EXCEPT !.custom_model_exists = ~@]
    /\ UNCHANGED <<is_listening, access_key, stop_sender, dropped, keychain,
                   nsessions, sess, now, nframes, matches, events, stopped, ret, limit, capture>>

\* the command get_current_wake_word: it takes no service and no lock
get_current_wake_word ==
    /\ ret' = Result("get_current_wake_word", current_wake_word)
    /\ UNCHANGED <<is_listening, access_key, stop_sender, dropped, keychain, env,
                   nsessions, sess, now, nframes, matches, events, stopped, limit, capture>>

\* one tick of the clock passes
tick ==
    /\ now < limit.time
    /\ now' = now + 1
    /\ UNCHANGED <<is_listening, access_key, stop_sender, dropped, keychain, env,
                   nsessions, sess, nframes, matches, events, stopped, ret, limit, capture>>

-----------------------------------------------------------------------------
(* AudioCaptureService (audio_capture.rs) *)

Captures == 1 .. MaxCaptures

\* what one start_capture spawns: the audio-processing task with the receiving
\* end of the channel, and the blocking thread that builds the stream, holds it
\* and the sender audio_tx, and polls the recording flag
NoCaptureTask ==
    [ processing |-> "none",
      audio_rx   |-> 0,
      thread     |-> "none",
      stream     |-> FALSE,
      audio_tx   |-> FALSE ]

\* AudioCaptureService::new
NoCapture ==
    [ is_recording |-> FALSE,
      audio_sender |-> 0,
      ncaptures    |-> 0,
      task         |-> [n \in Captures |-> NoCaptureTask] ]

CaptureStreams == {n \in Captures : capture.task[n].stream}

ProcessingTasks == {n \in Captures : capture.task[n].processing = "running"}

CaptureUnchanged ==
    UNCHANGED <<is_listening, access_key, stop_sender, dropped, keychain, env,
                nsessions, sess, now, nframes, matches, events, stopped, limit>>

\* the guard of start_capture
AlreadyRecording == capture.is_recording

\* start_capture: device and config, channel, flag, the two spawns
start_capture ==
    /\ \E device \in {"Ok", "NoInputDevice", "DeviceConfigError"} :
         LET n == capture.ncaptures + 1 IN
         IF AlreadyRecording
         THEN /\ ret' = Result("start_capture", "Ok")
              /\ UNCHANGED capture
         ELSE IF device # "Ok"
         THEN /\ ret' = Result("start_capture", device)
              /\ UNCHANGED capture
         ELSE /\ n <= MaxCaptures
              /\ ret' = Result("start_capture", "Ok")
              /\ capture' = [capture EXCEPT
                    !.audio_sender = n,
                    !.is_recording = TRUE,
                    !.ncaptures = n,
                    !.task[n] = [NoCaptureTask EXCEPT !.processing = "running",
                                                      !.thread = "spawned",
                                                      !.audio_tx = TRUE]]
    /\ CaptureUnchanged

\* the closure of spawn_blocking up to the keep-alive loop: build the stream for
\* the sample format and play it; on any failure the closure returns
run_capture_stream(n) ==
    /\ capture.task[n].thread = "spawned"
    /\ \E outcome \in {"Ok", "Unsupported", "StreamBuildError", "StreamPlayError"} :
         capture' = [capture EXCEPT !.task[n] =
             IF outcome = "Ok"
             THEN [@ EXCEPT !.thread = "keep_alive", !.stream = TRUE]
             ELSE [@ EXCEPT !.thread = "returned", !.stream = FALSE,
                            !.audio_tx = FALSE]]
    /\ UNCHANGED ret
    /\ CaptureUnchanged

\* one round of `while is_recording_clone.load() { sleep(100 ms) }`: the thread
\* sleeps on, or leaves the loop and returns, dropping the stream and audio_tx
keep_alive(n) ==
    /\ capture.task[n].thread = "keep_alive"
    /\ IF capture.is_recording
       THEN UNCHANGED capture
       ELSE capture' = [capture EXCEPT !.task[n] =
                [@ EXCEPT !.thread = "returned", !.stream = FALSE, !.audio_tx = FALSE]]
    /\ UNCHANGED ret
    /\ CaptureUnchanged

\* the data callback of build_stream_f32 / _i16 / _u16: flag, convert, resample, send
capture_callback(n) ==
    /\ capture.task[n].stream
    /\ IF ~capture.is_recording
       THEN UNCHANGED capture
       ELSE /\ capture.task[n].audio_rx < MaxChunks
            /\ capture' = [capture EXCEPT !.task[n].audio_rx = @ + 1]
    /\ UNCHANGED ret
    /\ CaptureUnchanged

\* the processing task takes one chunk: audio_rx.recv() gave Some(samples)
process_audio_chunk(n) ==
    /\ capture.task[n].processing = "running"
    /\ capture.task[n].audio_rx > 0
    /\ capture' = [capture EXCEPT !.task[n].audio_rx = @ - 1]
    /\ UNCHANGED ret
    /\ CaptureUnchanged

\* audio_rx.recv() gives None: the channel is empty and every sender is gone,
\* the service's clone and the one the thread and its stream hold
processing_ends(n) ==
    /\ capture.task[n].processing = "running"
    /\ capture.task[n].audio_rx = 0
    /\ capture.audio_sender # n
    /\ ~capture.task[n].audio_tx
    /\ capture' = [capture EXCEPT !.task[n].processing = "ended"]
    /\ UNCHANGED ret
    /\ CaptureUnchanged

\* stop_capture: clear the flag, drop the service's sender, sleep 100 ms
stop_capture ==
    /\ IF ~capture.is_recording
       THEN /\ ret' = Result("stop_capture", "Ok")
            /\ UNCHANGED capture
       ELSE /\ ret' = Result("stop_capture", "Ok")
            /\ capture' = [capture EXCEPT !.is_recording = FALSE, !.audio_sender = 0]
    /\ CaptureUnchanged

-----------------------------------------------------------------------------
(* Specifications *)

\* environments: PV_ACCESS_KEY, the default input device's configuration,
\* EVA_DEBUG_AUDIO, WAKE_WORD_KEYWORD, and whether models/Hi-Eva.ppn exists
Envs ==
    [ pv_access_key     : {None, Some("key")},
      input_sample_rate : {16000, 32000},
      channels          : {1, 2},
      debug_audio       : {FALSE, TRUE},
      buffer_frames     : {PORCUPINE_FRAME_LENGTH},
      wake_word_keyword : {None},
      custom_model_exists : {FALSE} ]

\* device buffer sizes, in frames per callback
BufferFrames == {200, PORCUPINE_FRAME_LENGTH, 700}

\* environments of the capture bridge: a key is present, no debug recording,
\* every device configuration and buffer size
BridgeEnvs ==
    [ pv_access_key     : {Some("key")},
      input_sample_rate : {16000, 32000},
      channels          : {1, 2},
      debug_audio       : {FALSE},
      buffer_frames     : BufferFrames,
      wake_word_keyword : {None},
      custom_model_exists : {FALSE} ]

\* environments of the sample-by-sample view: a key is present, no debug
\* recording, devices with one, two or three channels
SampleEnvs ==
    [ pv_access_key     : {Some("key")},
      input_sample_rate : {16000, 32000},
      channels          : {1, 2, 3},
      debug_audio       : {FALSE},
      buffer_frames     : {PORCUPINE_FRAME_LENGTH},
      wake_word_keyword : {None},
      custom_model_exists : {FALSE} ]

\* values of PV_ACCESS_KEY: unset, set to the empty string, set to a key
KeyEnvs ==
    [ pv_access_key     : {None, Some(""), Some("key")},
      input_sample_rate : {PORCUPINE_SAMPLE_RATE},
      channels          : {1},
      debug_audio       : {FALSE},
      buffer_frames     : {PORCUPINE_FRAME_LENGTH},
      wake_word_keyword : {None},
      custom_model_exists : {FALSE} ]

\* what the keychain entry holds when the program starts: nothing, an empty
\* password, or a key stored by an earlier run
Keychains == {None, Some(""), Some("stored")}

\* values of WAKE_WORD_KEYWORD: unset, each recognised name, "porcupine", and an
\* unrecognised value
WakeWordKeywords ==
    {None, Some("alexa"), Some("computer"), Some("jarvis"), Some("hey-google"),
     Some("ok-google"), Some("picovoice"), Some("porcupine"), Some("bogus")}

\* environments of the keyword resolution, with or without the custom model file
KeywordEnvs ==
    [ pv_access_key     : {Some("key")},
      input_sample_rate : {PORCUPINE_SAMPLE_RATE},
      channels          : {1},
      debug_audio       : {FALSE},
      buffer_frames     : {PORCUPINE_FRAME_LENGTH},
      wake_word_keyword : WakeWordKeywords,
      custom_model_exists : BOOLEAN ]

\* a 16 kHz mono device, no debug recording, no keyword override
PlainEnvs == {e \in Envs : /\ e.input_sample_rate = PORCUPINE_SAMPLE_RATE
                           /\ e.channels = 1
                           /\ ~e.debug_audio}

\* a 16 kHz mono device with EVA_DEBUG_AUDIO set
DebugEnvs == {e \in Envs : /\ e.input_sample_rate = PORCUPINE_SAMPLE_RATE
                           /\ e.channels = 1
                           /\ e.debug_audio}

\* PorcupineService::new, nothing spawned
InitState ==
    /\ is_listening = FALSE
    /\ access_key = None
    /\ stop_sender = 0
    /\ dropped = FALSE
    /\ keychain = None
    /\ nsessions = 0
    /\ sess = [s \in Sessions |-> NoSession]
    /\ now = 0
    /\ nframes = 0
    /\ matches = <<>>
    /\ events = <<>>
    /\ stopped = {}
    /\ ret = Result("new", "Ok")
    /\ capture = NoCapture

Limit(sessions, live, frames, time, trace) ==
    [sessions |-> sessions, live |-> live, frames |-> frames, time |-> time,
     trace_matches |-> trace]

Init ==
    /\ InitState
    /\ env \in Envs
    /\ limit = Limit(MaxSessions, MaxLive, MaxFrames, MaxTime, FALSE)

InitOne ==
    /\ InitState
    /\ env \in PlainEnvs
    /\ limit = Limit(OneSessions, OneLive, OneFrames, OneTime, FALSE)

InitCooldown ==
    /\ InitState
    /\ env \in PlainEnvs
    /\ limit = Limit(OneSessions, OneLive, CooldownFrames, CooldownTime, TRUE)

InitRestart ==
    /\ InitState
    /\ env \in PlainEnvs
    /\ limit = Limit(RestartSessions, RestartLive, RestartFrames, RestartTime, FALSE)

InitBridge ==
    /\ InitState
    /\ env \in BridgeEnvs
    /\ limit = Limit(OneSessions, OneLive, BridgeFrames, BridgeTime, FALSE)

InitSamples ==
    /\ InitState
    /\ env \in SampleEnvs
    /\ limit = Limit(OneSessions, OneLive, OneFrames, OneTime, FALSE)

\* the program starts with whatever an earlier run left in the keychain
InitKey ==
    /\ is_listening = FALSE
    /\ access_key = None
    /\ stop_sender = 0
    /\ dropped = FALSE
    /\ keychain \in Keychains
    /\ nsessions = 0
    /\ sess = [s \in Sessions |-> NoSession]
    /\ now = 0
    /\ nframes = 0
    /\ matches = <<>>
    /\ events = <<>>
    /\ stopped = {}
    /\ ret = Result("new", "Ok")
    /\ capture = NoCapture
    /\ env \in KeyEnvs
    /\ limit = Limit(RestartSessions, RestartLive, OneFrames, OneTime, FALSE)

InitKeyword ==
    /\ InitState
    /\ env \in KeywordEnvs
    /\ limit = Limit(OneSessions, OneLive, OneFrames, OneTime, FALSE)

InitStop ==
    /\ InitState
    /\ env \in PlainEnvs
    /\ limit = Limit(StopSessions, StopLive, StopFrames, StopTime, FALSE)

InitDrop ==
    /\ InitState
    /\ env \in PlainEnvs
    /\ limit = Limit(DropSessions, DropLive, DropFrames, DropTime, FALSE)

InitDebug ==
    /\ InitState
    /\ env \in DebugEnvs
    /\ limit = Limit(OneSessions, OneLive, DebugFrames, DebugTime, TRUE)

Next ==
    \/ start_listening
    \/ stop_listening
    \/ status
    \/ drop
    \/ \E s \in Spawned : worker(s)
    \/ \E s \in Spawned : audio_callback(s)
    \/ \E s \in Spawned : capture_bridge_terminated(s)
    \/ tick

Spec == Init /\ [][Next]_vars

SpecOne == InitOne /\ [][Next]_vars

SpecCooldown == InitCooldown /\ [][Next]_vars

SpecRestart == InitRestart /\ [][Next]_vars

SpecDebug == InitDebug /\ [][Next]_vars

SpecBridge == InitBridge /\ [][Next]_vars

\* the callbacks deliver a few samples at a time, followed sample by sample; no
\* frame is completed, so the loop only waits for the stop
NextSamples ==
    \/ start_listening
    \/ stop_listening
    \/ \E s \in Spawned : worker_startup(s)
    \/ \E s \in Spawned : worker_try_recv(s)
    \/ \E s \in Spawned : worker_recv_timeout(s)
    \/ \E s \in Spawned : worker_finalize(s)
    \/ \E s \in Spawned : worker_drop_stream(s)
    \/ \E s \in Spawned : worker_store_false(s)
    \/ \E s \in Spawned : audio_callback_samples(s)
    \/ \E s \in Spawned : capture_bridge_terminated(s)

SpecSamples == InitSamples /\ [][NextSamples]_vars

SpecKey == InitKey /\ [][Next]_vars

\* the program's steps, and the custom model file coming and going meanwhile
NextKeyword ==
    \/ Next
    \/ model_file_changes
    \/ get_current_wake_word

SpecKeyword == InitKeyword /\ [][NextKeyword]_vars

\* the AudioCaptureService alone: its two commands, its threads and tasks
NextCapture ==
    \/ start_capture
    \/ stop_capture
    \/ \E n \in Captures : run_capture_stream(n)
    \/ \E n \in Captures : keep_alive(n)
    \/ \E n \in Captures : capture_callback(n)
    \/ \E n \in Captures : process_audio_chunk(n)
    \/ \E n \in Captures : processing_ends(n)

SpecCapture == InitOne /\ [][NextCapture]_vars

\* every spawned worker keeps running: recv_timeout returns within 100 ms and each
\* engine call returns
WorkersRun == \A s \in Sessions : WF_vars(worker(s))

SpecStop == InitStop /\ [][Next]_vars

FairSpecStop == InitStop /\ [][Next]_vars /\ WorkersRun

FairSpecDrop == InitDrop /\ [][Next]_vars /\ WorkersRun

-----------------------------------------------------------------------------
(* Properties *)

\* everything but the value returned by the last controller call
state == <<is_listening, access_key, stop_sender, dropped, keychain, env,
           nsessions, sess, now, nframes, matches, events, stopped, limit, capture>>

\* the emit calls made by session s, in order
EventsOf(s) == SelectSeq(events, LAMBDA e : e.session = s)

\* C1. No double-start: a start issued while the running flag is true returns
\* AlreadyListening, allocates nothing and changes no state, so that afterwards only
\* one CaptureSession / detection-engine instance exists.
C1_NoDoubleStart ==
    [][(start_listening /\ is_listening) =>
          /\ ret' = Result("start", "AlreadyListening")
          /\ UNCHANGED state
          /\ Cardinality(LiveWorkers') <= 1]_vars

\* The part of C1 that the code keeps: the rejected start returns AlreadyListening,
\* spawns nothing and leaves every variable of the controller and of the sessions
\* as it was.
RejectedStartChangesNothing ==
    [][(start_listening /\ is_listening) =>
          /\ ret' = Result("start", "AlreadyListening")
          /\ UNCHANGED state]_vars

\* C2. In every reachable state at most one CaptureSession (an open audio stream
\* with its detection worker) exists.
C2_AtMostOneCaptureSession == Cardinality(OpenStreams) <= 1

\* C3. Post-stop silence: once stop_listening has returned Ok for a session, that
\* session makes no further emit call.
C3_PostStopSilence ==
    [][\A s \in stopped : EventsOf(s)' = EventsOf(s)]_vars

\* C6. Every start-time failure aborts start before a worker is spawned and is
\* returned by start: no spawned worker ever fails in its Starting phase (a worker
\* is spawned only by a start that returns Ok).
C6_StartFailuresAbortBeforeSpawn ==
    \A s \in Spawned : sess[s].pc # "failed"

\* C7. After any failure in the Starting phase the controller is Stopped: the
\* running flag is false (status NotListening, a later start is not rejected), both
\* when start itself returned the error and when the latest worker failed.
C7_FailedStartLeavesStopped ==
    /\ (ret.op = "start" /\ ret.val \in {"AccessKey", "PorcupineInit"}) => ~is_listening
    /\ \A s \in Spawned : (s = nsessions /\ sess[s].pc = "failed") => ~is_listening

\* C8. Idempotent stop: stop_listening called while the running flag is false
\* returns NotListening and changes nothing: the flag, the stored stop sender, the
\* cached key and every session (so no stop signal is sent) stay as they were.
C8_IdempotentStop ==
    [][(stop_listening /\ ~is_listening) =>
          /\ ret' = Result("stop", "NotListening")
          /\ UNCHANGED state]_vars

\* C8 witness: a rejected stop has returned while a key is cached and a worker of
\* the session stopped before is still alive.
C8_Witness ==
    /\ ret = Result("stop", "NotListening")
    /\ access_key # None
    /\ stopped # {}
    /\ LiveWorkers # {}

\* the times of the non-negative engine results of session s, in order
MatchTimes(s) ==
    LET ms == SelectSeq(matches, LAMBDA m : m[1] = s)
    IN  [i \in 1 .. Len(ms) |-> ms[i][2]]

\* the times of the emit calls of session s, in order
EmitTimes(s) ==
    LET es == EventsOf(s)
    IN  [i \in 1 .. Len(es) |-> es[i].timestamp]

RECURSIVE GreedyAfter(_, _)
\* of the match times ts, those emitted when the last emitted one was at time last
GreedyAfter(ts, last) ==
    IF ts = <<>> THEN <<>>
    ELSE IF Head(ts) - last >= cooldown_duration
         THEN <<Head(ts)>> \o GreedyAfter(Tail(ts), Head(ts))
         ELSE GreedyAfter(Tail(ts), last)

\* the greedy subsequence: the first match, then every match at least the cooldown
\* after the last one kept
Greedy(ts) ==
    IF ts = <<>> THEN <<>> ELSE <<Head(ts)>> \o GreedyAfter(Tail(ts), Head(ts))

\* C4. Cooldown within a session: the times of the emit calls of a session are
\* exactly the greedy subsequence of the times of its engine matches (the first
\* match is emitted, a later one iff at least cooldown_duration after the last
\* emitted one), and a frame whose match is suppressed emits nothing and leaves
\* last_detection_time unchanged.
C4_CooldownWithinSession ==
    /\ [](\A s \in Spawned : EmitTimes(s) = Greedy(MatchTimes(s)))
    /\ [][\A s \in Spawned :
            (worker_process(s) /\ EventsOf(s)' = EventsOf(s)) =>
                sess'[s].last_detection_time = sess[s].last_detection_time]_vars

\* C4 witness: matches at 0.0 s, 0.5 s, 1.0 s and 2.5 s have been processed and
\* exactly the first and the last were emitted.
C4_Witness ==
    /\ MatchTimes(1) = <<0, 1, 2, 5>>
    /\ EmitTimes(1) = <<0, 5>>

\* C5 as stated: over the whole life of the controller, across start/stop cycles,
\* no two detection events are closer together than cooldown_duration (here: even
\* counting only the emit calls that returned Ok and were made before the stop of
\* their session, while no other worker was alive).
C5_GlobalCooldown ==
    \A i, j \in 1 .. Len(events) :
        (/\ i < j
         /\ events[i].delivered /\ ~events[i].after_stop
         /\ events[j].delivered /\ ~events[j].after_stop) =>
            events[j].timestamp - events[i].timestamp >= cooldown_duration

\* C5 amended: no two emit calls of the same session (whether or not the emit
\* returned Ok) are closer together than cooldown_duration.
C5_SessionCooldown ==
    \A i, j \in 1 .. Len(events) :
        (i < j /\ events[i].session = events[j].session) =>
            events[j].timestamp - events[i].timestamp >= cooldown_duration

\* C5 witness: after a stop/start cycle the second session has emitted twice.
C5_Witness ==
    /\ 1 \in stopped
    /\ Len(EventsOf(2)) = 2

\* C9. Bounded shutdown: once stop_listening has returned Ok for a session, the
\* worker of that session eventually observes the stop (or the end of its frame
\* channel), finalizes, drops its stream and returns.
C9_BoundedShutdown ==
    \A s \in Sessions : (s \in stopped) ~> Returned(s)

\* C9 witness: a worker that was listening when stop returned Ok has gone through
\* its teardown and returned Ok.
C9_Witness ==
    \E s \in stopped : sess[s].pc = "returned" /\ sess[s].result = "Ok"

\* C10. Dropping the controller forces the running flag false and sends the stop
\* signal; afterwards every worker ever spawned eventually terminates and has
\* released its audio stream.
C10_DropLeavesNoOrphan ==
    /\ [](dropped => ~is_listening)
    /\ dropped ~> (\A s \in Spawned : Returned(s) /\ ~sess[s].stream)

\* C11. A new start builds an entirely new CaptureSession: no step of the worker
\* or of the data callback of an earlier session changes the running flag that a
\* later, still running session reads, nor the stream, frame channel, buffer or
\* resampler of a later session.
C11_SessionsIndependent ==
    [][\A s \in Spawned :
          (/\ worker(s) \/ audio_callback(s)
           /\ s < nsessions
           /\ ~Returned(nsessions)) =>
              /\ is_listening' = is_listening
              /\ \A t \in Spawned : t > s => sess'[t] = sess[t]]_vars

\* C12. Frames reach the detection engine in the order in which the Framer
\* completed them and none is processed twice: the k-th frame the loop receives is
\* the k-th frame completed, and the channel holds the frames completed after it,
\* in order.
C12_FifoOrder ==
    \A s \in Spawned :
        /\ sess[s].pc = "process" => sess[s].audio_frame.id = sess[s].frame_count
        /\ \A i \in 1 .. Len(sess[s].rx) : sess[s].rx[i].id = sess[s].frame_count + i

\* C12 witness: the loop is processing the second frame while a third one, completed
\* later, waits in the channel.
C12_Witness ==
    \E s \in Spawned :
        /\ sess[s].pc = "process"
        /\ sess[s].audio_frame.id = 2
        /\ Len(sess[s].rx) = 1

\* the frames of session s that are in the channel or in the hands of the loop
FramesInFlight(s) ==
    {sess[s].rx[i] : i \in 1 .. Len(sess[s].rx)} \cup
    (IF sess[s].pc = "process" THEN {sess[s].audio_frame} ELSE {})

\* C13. Frame completeness: every frame handed to the channel has exactly
\* PORCUPINE_FRAME_LENGTH samples and starts where the previous one ended, and the
\* frames yielded so far followed by the Framer's buffer (fewer than
\* PORCUPINE_FRAME_LENGTH samples after a callback) are the whole resampled mono
\* stream produced so far: no sample is dropped.
C13_FrameCompleteness ==
    \A s \in Spawned :
        /\ \A f \in FramesInFlight(s) :
              /\ f.len = PORCUPINE_FRAME_LENGTH
              /\ f.first = (f.id - 1) * PORCUPINE_FRAME_LENGTH
        /\ sess[s].audio_buffer < PORCUPINE_FRAME_LENGTH
        /\ sess[s].frames_completed * PORCUPINE_FRAME_LENGTH + sess[s].audio_buffer
              = sess[s].resampled_total

\* C13 witness: a resampling session has yielded two frames and holds a partial
\* frame in its buffer.
C13_Witness ==
    \E s \in Spawned :
        /\ sess[s].resampler
        /\ sess[s].frames_completed = 2
        /\ sess[s].audio_buffer > 0

\* The receiver of a session's frame channel outlives its stream, so tx.send never
\* fails: whenever the data callback can run, the worker has not returned.
SendNeverFails ==
    \A s \in Spawned : sess[s].stream => ~Returned(s)

\* C14. Once stop_listening has returned Ok for a session, no later callback of
\* that session's stream enqueues anything: the number of frames in the session's
\* channel never increases.
C14_NoFramesAfterStop ==
    [][\A s \in stopped : Len(sess'[s].rx) <= Len(sess[s].rx)]_vars

\* the bound on frames leaves room for whatever the next callback completes
WithinFrameBound(s) ==
    \A n \in DataLens :
        nframes + ((sess[s].audio_buffer + n) \div PORCUPINE_FRAME_LENGTH) <= limit.frames

Listening(s) ==
    /\ sess[s].pc \in {"try_recv", "recv_timeout", "process"}
    /\ sess[s].stream

\* C17. A per-frame engine error is isolated: the frame for which
\* porcupine.process returned Err produces no event and no change of
\* last_detection_time, and the loop stays in Listening with its channel untouched,
\* so the following frames are still received and processed.
C17_EngineErrorIsolated ==
    [][\A s \in Spawned :
          (worker_process(s) /\ sess'[s].engine_result = "Err") =>
              /\ events' = events
              /\ sess'[s].last_detection_time = sess[s].last_detection_time
              /\ Listening(s)'
              /\ sess'[s].rx = sess[s].rx]_vars

\* C17 witness: the engine has just failed on the first frame, the loop is back at
\* its top and the next frame waits in the channel.
C17_Witness ==
    \E s \in Spawned :
        /\ sess[s].engine_result = "Err"
        /\ sess[s].frame_count = 1
        /\ Listening(s)
        /\ Len(sess[s].rx) >= 1

\* C18. A failed emit is not fatal: after app_handle.emit returned Err the loop
\* stays in Listening with its channel untouched, so the following frames are still
\* received and processed.
C18_EmitErrorNotFatal ==
    [][\A s \in Spawned :
          (worker_process(s) /\ sess'[s].engine_result = "EmitErr") =>
              /\ Listening(s)'
              /\ sess'[s].rx = sess[s].rx]_vars

\* C18 witness: a session whose first emit failed has later processed another
\* frame and emitted its event successfully.
C18_Witness ==
    \E s \in Spawned :
        /\ Len(EventsOf(s)) = 2
        /\ ~EventsOf(s)[1].delivered
        /\ EventsOf(s)[2].delivered

\* C19. When a write to the debug recording fails, further debug writes are
\* disabled for the rest of the session (the writer is no longer open, so no later
\* frame attempts a write), while the loop stays in Listening.
C19_DebugWriteFailureDisablesWrites ==
    \A s \in Spawned :
        sess[s].debug_write_failed =>
            /\ sess[s].debug_wav_writer # "open"
            /\ sess[s].pc \in {"try_recv", "recv_timeout", "process"} => sess[s].stream

\* The part of C19 that the code keeps: a frame whose debug write fails is still
\* passed to the engine, and the loop stays in Listening.
DebugWriteFailureKeepsDetection ==
    [][\A s \in Spawned :
          (worker_process(s) /\ sess'[s].debug_write_failed) => Listening(s)']_vars

\* C20. Debug recording never changes whether detection runs: no worker fails in
\* its startup because the debug directory or the debug file could not be created.
C20_DebugSetupNeverBlocksDetection ==
    \A s \in Spawned :
        sess[s].result \notin {"AudioDevice(Failed to create debug directory)",
                               "AudioDevice(Failed to create WAV writer)"}

\* C21. Polling status tells a caller that the teardown is complete: once
\* stop_listening has returned Ok, whenever status returns NotListening the stopped
\* session's stream has been dropped, its debug recording finalized and its worker
\* has returned.
C21_StatusShowsTeardownComplete ==
    ret = Result("status", "NotListening") =>
        \A s \in stopped :
            /\ ~sess[s].stream
            /\ sess[s].debug_wav_writer # "open"
            /\ Returned(s)

\* the samples of channel 0 of the interleaved frames of data
ChannelZero(data, channels) ==
    [i \in 1 .. (Len(data) \div channels) |-> data[(i - 1) * channels + 1]]

\* C22. Mono down-mix: for interleaved input with any channel count N >= 2, the
\* mono sequence the callback produces is exactly sample 0 of each N-sample frame;
\* samples of other channels never appear in it.
C22_MonoIsChannelZero ==
    \A s \in Spawned :
        (env.channels >= 2 /\ sess[s].pcm.data # <<>>) =>
            sess[s].pcm.mono_samples = ChannelZero(sess[s].pcm.data, env.channels)

\* The part of C22 that the code keeps: for two channels the mono sequence is the
\* left channel, for one channel it is the input.
StereoIsLeftChannel ==
    \A s \in Spawned :
        (env.channels <= 2 /\ sess[s].pcm.data # <<>>) =>
            sess[s].pcm.mono_samples = ChannelZero(sess[s].pcm.data, env.channels)

\* The view by lengths agrees with the view by samples: the buffer of the
\* sample-by-sample callback has the length the callback's counters give.
SampleViewAgrees ==
    \A s \in Spawned :
        /\ Len(sess[s].pcm.audio_buffer) = sess[s].audio_buffer
        /\ env.channels <= 2 =>
              Len(sess[s].pcm.mono_samples) = MonoLen(Len(sess[s].pcm.data), env.channels)

\* C23. Passthrough: when the device rate is 16000 Hz no resampler is constructed,
\* and every callback that runs appends to the Framer buffer exactly its mono
\* sequence: same length, same values, same order.
C23_PassthroughIsIdentity ==
    /\ [](\A s \in Spawned :
            (env.input_sample_rate = PORCUPINE_SAMPLE_RATE) => ~sess[s].resampler)
    /\ [][\A s \in Spawned :
            (/\ audio_callback_samples(s)
             /\ env.input_sample_rate = PORCUPINE_SAMPLE_RATE
             /\ sess'[s].pcm # sess[s].pcm) =>
                sess'[s].pcm.audio_buffer =
                    sess[s].pcm.audio_buffer \o sess'[s].pcm.mono_samples]_vars

\* C23 witness: a 16 kHz stereo session has run two callbacks and its buffer holds
\* the left samples of both, in order.
C23_Witness ==
    \E s \in Spawned :
        /\ env.input_sample_rate = PORCUPINE_SAMPLE_RATE
        /\ env.channels = 2
        /\ ~sess[s].resampler
        /\ sess[s].pcm.data = <<1, -1, -1, 1>>
        /\ sess[s].pcm.audio_buffer = <<1, 1, -1>>

\* the key the resolution order gives: the cached one, else the one the secure
\* store holds, else the environment's
ResolvedKey ==
    IF access_key # None THEN access_key
    ELSE IF keychain # None THEN keychain
    ELSE env.pv_access_key

\* The resolution order, an empty string counting as a key like any other.
ResolutionOrderWithEmptyKeys ==
    [][(start_listening /\ ~is_listening) =>
          /\ (ret'.val = "AccessKey") <=> (ResolvedKey = None)
          /\ access_key' = ResolvedKey
          /\ (ret'.val = "Ok") =>
                sess'[nsessions'].porcupine.access_key = ResolvedKey[1]
          /\ (keychain' # keychain) =>
                /\ access_key = None
                /\ keychain = None
                /\ env.pv_access_key # None
                /\ keychain' = env.pv_access_key]_vars

\* neither the cache, the secure store nor the environment holds the empty string
NoEmptyValue == Some("") \notin {access_key, keychain, env.pv_access_key}

\* C24. Credential resolution order: a start that gets past the running flag takes
\* the access key from the cache if present, otherwise from the secure store if it
\* holds one, otherwise from the environment, and fails with AccessKey only when
\* all three are missing; the key found is cached and is the one the engine is
\* built with; the secure store is written only when cache and store were empty
\* and the environment gave the key, and then with that key. (Empty values are
\* the subject of C25 and are left aside here.)
C24_CredentialResolutionOrder ==
    [][(start_listening /\ ~is_listening /\ NoEmptyValue) =>
          /\ (ret'.val = "AccessKey") <=> (ResolvedKey = None)
          /\ access_key' = ResolvedKey
          /\ (ret'.val = "Ok") =>
                sess'[nsessions'].porcupine.access_key = ResolvedKey[1]
          /\ (keychain' # keychain) =>
                /\ access_key = None
                /\ keychain = None
                /\ env.pv_access_key # None
                /\ keychain' = env.pv_access_key]_vars

\* C24 witness: a start found nothing in the cache and in the secure store, took
\* the key from the environment, wrote it back and built the engine with it.
C24_Witness ==
    /\ ret = Result("start", "Ok")
    /\ env.pv_access_key = Some("key")
    /\ keychain = Some("key")
    /\ access_key = Some("key")
    /\ sess[nsessions].porcupine.access_key = "key"

\* C25. A missing or empty credential is fatal: when the secure store and the
\* environment give nothing but an absent or empty value, start returns AccessKey,
\* caches nothing, writes nothing to the secure store and builds no engine.
C25_EmptyKeyIsFatal ==
    [][(/\ start_listening /\ ~is_listening
        /\ keychain \in {None, Some("")}
        /\ env.pv_access_key \in {None, Some("")}) =>
          /\ ret'.val = "AccessKey"
          /\ access_key' = None
          /\ keychain' = keychain
          /\ nsessions' = nsessions]_vars

\* The part of C25 that the code keeps: with no value at all in the cache, the
\* secure store and the environment, start returns AccessKey and changes nothing.
MissingKeyIsFatal ==
    [][(/\ start_listening /\ ~is_listening
        /\ access_key = None /\ keychain = None /\ env.pv_access_key = None) =>
          /\ ret' = Result("start", "AccessKey")
          /\ UNCHANGED state]_vars

\* the name by which WAKE_WORD_KEYWORD selects each built-in keyword
BuiltinName ==
    [Alexa |-> "alexa", Computer |-> "computer", Jarvis |-> "jarvis",
     HeyGoogle |-> "hey-google", OkGoogle |-> "ok-google", Picovoice |-> "picovoice",
     Porcupine |-> "porcupine"]

BuiltinKeywords == DOMAIN BuiltinName

\* the three cases of the keyword resolution, for a resolver's result k and the
\* value custom it gives for the custom model
ThreeCases(k, custom) ==
    /\ env.custom_model_exists => k = custom
    /\ (~env.custom_model_exists /\ env.wake_word_keyword # None) =>
          /\ k \in BuiltinKeywords
          /\ \A b \in BuiltinKeywords :
                BuiltinName[b] = env.wake_word_keyword[1] => k = b
    /\ (~env.custom_model_exists /\ env.wake_word_keyword = None) => k = "Computer"

\* C26. Keyword resolution: if the custom model file exists the custom keyword is
\* selected whatever WAKE_WORD_KEYWORD says; otherwise, if WAKE_WORD_KEYWORD is
\* set, a built-in keyword, namely the one the value names; otherwise Computer.
\* This holds of the keyword every start builds its engine with, and of
\* WakeWordKeyword::from_env.
C26_KeywordResolution ==
    /\ [][(start_listening /\ nsessions' # nsessions) =>
            ThreeCases(sess'[nsessions'].porcupine.keyword, custom_model_path)]_vars
    /\ []ThreeCases(from_env, "HiEva")

\* C26 witness: a session whose engine was built with the custom model although
\* WAKE_WORD_KEYWORD names a built-in keyword.
C26_Witness ==
    \E s \in Spawned :
        /\ sess[s].porcupine.keyword = custom_model_path
        /\ env.wake_word_keyword = Some("alexa")

\* the label of a keyword
KeywordLabel(k) == IF k = custom_model_path THEN "Hi Eva" ELSE keyword_name(k)

\* C27. The keyword selection is fixed for the life of a session: every event
\* carries the label of the keyword the session's engine was built with, even if
\* the custom model file appears or disappears while the session runs.
C27_EventLabelIsEngineKeyword ==
    \A i \in 1 .. Len(events) : events[i].wake_word = KeywordLabel(events[i].keyword)

\* C28. status is a pure read of the running flag: it can be called in every state
\* of a live controller, returns Listening iff the flag is true, and changes
\* nothing in the controller, the sessions or the workers.
C28_StatusIsPureRead ==
    /\ [](~dropped => ENABLED status)
    /\ [][status =>
            /\ ret' = Result("status", IF is_listening THEN "Listening" ELSE "NotListening")
            /\ UNCHANGED state]_vars

\* C28 witness: status has returned Listening while a worker is inside an engine
\* call and a key is cached.
C28_Witness ==
    /\ ret = Result("status", "Listening")
    /\ access_key # None
    /\ \E s \in Spawned : sess[s].pc = "process"

\* the positions of the worker inside its loop
LoopPcs == {"try_recv", "recv_timeout", "process"}

\* C29. The Detection Loop leaves Listening only on the stop notification or on
\* channel disconnect, and then tears down in this order: finalize the debug
\* recording, drop the stream, clear the running flag, return; the worker never
\* clears the flag while its stream is open.
C29_TeardownOrder ==
    [][\A s \in Spawned :
          /\ (sess[s].pc \in LoopPcs /\ sess'[s].pc \notin LoopPcs) =>
                /\ sess'[s].pc = "finalize"
                /\ \/ sess[s].stop_rx = "sent"
                   \/ sess[s].rx = <<>> /\ ~sess[s].tx
                /\ sess'[s].stream = sess[s].stream
          /\ (sess[s].pc = "finalize" /\ sess'[s].pc # "finalize") =>
                /\ sess'[s].pc = "drop_stream"
                /\ sess'[s].debug_wav_writer # "open"
                /\ sess'[s].stream = sess[s].stream
                /\ is_listening' = is_listening
          /\ (sess[s].pc = "drop_stream" /\ sess'[s].pc # "drop_stream") =>
                /\ sess'[s].pc = "store_false"
                /\ ~sess'[s].stream
                /\ is_listening' = is_listening
          /\ (sess[s].pc = "store_false" /\ sess'[s].pc # "store_false") =>
                /\ sess'[s].pc = "returned"
                /\ ~sess[s].stream
                /\ sess[s].debug_wav_writer # "open"
                /\ ~is_listening']_vars

\* C29 witness: a worker with a debug recording has left the loop on a channel
\* disconnect (no stop was sent), has finalized the recording and dropped its
\* stream, and is about to clear the flag, which is still set.
C29_Witness ==
    \E s \in Spawned :
        /\ sess[s].pc = "store_false"
        /\ sess[s].stop_rx = "empty"
        /\ sess[s].debug_wav_writer = "finalized"
        /\ ~sess[s].stream
        /\ is_listening

\* C30. The running flag is written true only by start_listening, and only by a
\* start that read it as false; stop, drop, the workers and the callbacks only
\* ever write false.
C30_FlagSingleWriter ==
    [][/\ (~is_listening /\ is_listening') => (start_listening /\ ret' = Result("start", "Ok"))
       /\ (start_listening /\ nsessions' # nsessions) => (~is_listening /\ is_listening')
       /\ (\/ stop_listening
           \/ drop
           \/ \E s \in Spawned : worker(s) \/ audio_callback(s)
                                   \/ capture_bridge_terminated(s)) =>
             (is_listening' = is_listening \/ ~is_listening')]_vars

\* C30 witness: the first worker has cleared the flag in its teardown and a second
\* start, having read it false, has set it again.
C30_Witness ==
    /\ nsessions = 2
    /\ sess[1].pc = "returned"
    /\ sess[2].pc # "none"
    /\ is_listening
    /\ stopped = {}


\* the frames the loop has taken from the channel and finished with, in order
FramesDone(s) ==
    [i \in 1 .. (sess[s].frame_count - (IF sess[s].pc = "process" THEN 1 ELSE 0)) |-> i]

\* C31. While a debug recording is open and no write has failed, the recording
\* holds every frame the loop has received and finished with, once each and in
\* receive order; and the step that handles a frame appends it whatever the
\* engine said: no match, accepted match, match suppressed by the cooldown, error.
C31_RecordingHasEveryFrame ==
    /\ [](\A s \in Spawned :
            (sess[s].debug_wav_writer = "open" /\ ~sess[s].debug_write_failed) =>
                sess[s].debug_recording = FramesDone(s))
    /\ [][\A s \in Spawned :
            (/\ worker_process(s)
             /\ sess[s].debug_wav_writer = "open"
             /\ ~sess'[s].debug_write_failed) =>
                /\ sess'[s].engine_result \in {"NoMatch", "Emitted", "EmitErr",
                                                "Suppressed", "Err"}
                /\ sess'[s].debug_recording =
                       Append(sess[s].debug_recording, sess[s].audio_frame.id)]_vars

\* C31 witness: three frames were recorded in order, none failed to be written;
\* the first match was accepted, the second suppressed by the cooldown, and the
\* engine failed on the third frame.
C31_Witness ==
    \E s \in Spawned :
        /\ sess[s].debug_wav_writer = "open"
        /\ ~sess[s].debug_write_failed
        /\ sess[s].debug_recording = <<1, 2, 3>>
        /\ Len(EventsOf(s)) = 1
        /\ Len(matches) = 2
        /\ sess[s].engine_result = "Err"

\* C32. Every detection worker that is alive and has not been sent a stop
\* notification has its one-shot stop sender held by the controller; in
\* particular start never overwrites the sender of a worker that still runs.
C32_StopPathKept ==
    \A s \in LiveWorkers : sess[s].stop_rx # "sent" => stop_sender = s

\* session s is the last one started, has been sent its stop, has not entered
\* the body of the loop and has left no trace: no frame queued or received, no
\* event; it is before the loop, at the stop check that will see the stop, or
\* past the loop
StoppedBeforeLoop(s) ==
    /\ s = nsessions
    /\ ~is_listening
    /\ sess[s].pc \in {"starting", "try_recv", "finalize", "drop_stream",
                        "store_false", "failed", "returned"}
    /\ sess[s].pc \in {"starting", "try_recv"} => sess[s].stop_rx = "sent"
    /\ sess[s].pc \notin {"failed", "returned"} =>
          /\ sess[s].rx = <<>>
          /\ sess[s].frame_count = 0
          /\ sess[s].audio_frame = NoFrame
    /\ EventsOf(s) = <<>>

\* C33. A stop that reaches a worker still in its startup (devices, stream) is
\* not lost: as long as no further start is made the worker goes from startup
\* to the first stop check and from there out of the loop, no frame is queued
\* by its callbacks or handed to the engine, and no event is emitted.
C33_EarlyStopNotLost ==
    [][\A s \in Spawned :
          /\ (/\ sess[s].pc = "starting"
               /\ sess[s].stop_rx = "empty"
               /\ sess'[s].stop_rx = "sent") => StoppedBeforeLoop(s)'
          /\ (StoppedBeforeLoop(s) /\ nsessions' = nsessions) => StoppedBeforeLoop(s)'
          /\ (StoppedBeforeLoop(s) /\ sess[s].pc = "try_recv"
                 /\ sess'[s].pc # "try_recv") => sess'[s].pc = "finalize"]_vars

\* C33 witness: stop has returned Ok while the worker is still in its startup,
\* with no stream yet; the stop notification waits in the one-shot channel.
C33_Witness ==
    \E s \in Spawned :
        /\ StoppedBeforeLoop(s)
        /\ s \in stopped
        /\ ret = Result("stop", "Ok")
        /\ sess[s].pc = "starting"
        /\ ~sess[s].stream
        /\ sess[s].stop_rx = "sent"

\* the last accepted match of session s was not delivered and its cooldown runs
FailedEmitCoolingDown(s) ==
    /\ EventsOf(s) # <<>>
    /\ LET last == EventsOf(s)[Len(EventsOf(s))]
       IN  /\ ~last.delivered
           /\ now - last.timestamp < cooldown_duration

\* C34. Every accepted match sets the last-detection timestamp to the current
\* time, whether the emit then succeeds or fails, and the timestamp is never taken
\* back; so a match that arrives within the cooldown after a failed emit is
\* suppressed, although the host received no event.
C34_FailedEmitStartsCooldown ==
    [][\A s \in Spawned :
          worker_process(s) =>
             /\ events' # events => sess'[s].last_detection_time = now
             /\ sess'[s].last_detection_time >= sess[s].last_detection_time
             /\ (matches' # matches /\ FailedEmitCoolingDown(s)) =>
                   /\ events' = events
                   /\ sess'[s].engine_result = "Suppressed"]_vars

\* C34 witness: the only accepted match of the session was not delivered, and a
\* second match one tick later has been suppressed.
C34_Witness ==
    \E s \in Spawned :
        /\ Len(EventsOf(s)) = 1
        /\ ~EventsOf(s)[1].delivered
        /\ Len(matches) = 2
        /\ matches[2][2] = EventsOf(s)[1].timestamp + 1
        /\ sess[s].engine_result = "Suppressed"

\* the label of the engine's keyword, the label an event would get now, the
\* label of the command and the label of WakeWordKeyword::from_env are the same
LabelsAgree(engine_keyword) ==
    /\ KeywordLabel(engine_keyword) = wake_word
    /\ wake_word = current_wake_word
    /\ current_wake_word = as_str(from_env)

\* C35. All keyword resolvers agree: for every state of the custom model file
\* and every value of WAKE_WORD_KEYWORD, when a start builds the engine, and when
\* the command get_current_wake_word answers, the label of the keyword
\* create_porcupine selects, the label the loop puts in an event, the label the
\* command returns and the label of WakeWordKeyword::from_env are the same.
C35_ResolversAgree ==
    [][/\ (start_listening /\ nsessions' # nsessions) =>
             LabelsAgree(sess'[nsessions'].porcupine.keyword)
       /\ get_current_wake_word =>
             /\ ret'.val = KeywordLabel(keyword)
             /\ LabelsAgree(keyword)]_vars

\* the two resolvers of the service agree with each other, and the two outside
\* it agree with each other
ResolversAgreeInPairs ==
    /\ KeywordLabel(keyword) = wake_word
    /\ current_wake_word = as_str(from_env)

\* the four resolvers agree unless WAKE_WORD_KEYWORD is set to an unrecognised
\* value and the custom model file is absent
ResolversAgreeOnRecognisedValues ==
    (\/ env.custom_model_exists
     \/ env.wake_word_keyword = None
     \/ \E b \in BuiltinKeywords : env.wake_word_keyword = Some(BuiltinName[b])) =>
        LabelsAgree(keyword)

\* C36. A start that resolves an access key caches it before the engine is
\* built, also when the engine then fails to initialise; a start that finds a
\* cached key uses it and neither reads nor writes the secure store; and a start
\* that fails changes nothing of the controller but the cache: the running flag
\* stays false, no stop sender is stored, no worker is spawned.
C36_KeyCachedBeforeEngine ==
    [][(start_listening /\ ~is_listening) =>
          /\ ret'.val \in {"Ok", "PorcupineInit"} => access_key' # None
          /\ access_key # None =>
                /\ access_key' = access_key
                /\ keychain' = keychain
                /\ ret'.val # "AccessKey"
                /\ ret'.val = "Ok" =>
                      sess'[nsessions'].porcupine.access_key = access_key[1]
          /\ ret'.val # "Ok" =>
                /\ ~is_listening'
                /\ UNCHANGED <<stop_sender, dropped, nsessions, sess>>]_vars

\* C36 witness: the first start took the key from the environment, could not
\* write it to the secure store, cached it and then failed to build the engine:
\* the key is cached, the store is empty, nothing runs.
C36_Witness ==
    /\ ret = Result("start", "PorcupineInit")
    /\ access_key = Some("key")
    /\ keychain = None
    /\ nsessions = 0
    /\ ~is_listening
    /\ stop_sender = 0

\* C37. AudioCaptureService, under every interleaving of start_capture,
\* stop_capture, the keep-alive thread and the tasks: at most one capture stream
\* and at most one audio-processing task are alive at a time, and a
\* start_capture that finds the service recording returns Ok and creates nothing.
C37_AtMostOneCapture ==
    /\ [](Cardinality(CaptureStreams) <= 1 /\ Cardinality(ProcessingTasks) <= 1)
    /\ [][(start_capture /\ capture.is_recording) =>
            (ret' = Result("start_capture", "Ok") /\ UNCHANGED capture)]_vars

\* the part of C37 the code keeps: start_capture while recording returns Ok and
\* creates no stream, task or channel
StartWhileRecordingCreatesNothing ==
    [][(start_capture /\ capture.is_recording) =>
            (ret' = Result("start_capture", "Ok") /\ UNCHANGED capture)]_vars

\* a keep-alive thread whose stop_capture has returned and that holds its stream
\* while a later start_capture has set the flag again
StaleCaptureThread(n) ==
    /\ capture.task[n].thread = "keep_alive"
    /\ n < capture.ncaptures
    /\ capture.is_recording

\* at most one capture stream is open (violated: the first part of C37 fails for
\* streams as well as for processing tasks)
AtMostOneCaptureStream == Cardinality(CaptureStreams) <= 1

\* no thread is left holding its stream with the flag set again by a later
\* start_capture (violated: such a thread cannot observe its stop any more)
NoStaleCaptureThread == \A n \in Captures : ~StaleCaptureThread(n)

=============================================================================
